---- MODULE Spec2Model ----
(***************************************************************************)
(* Model of analyzer/bear.py: the build-interception front end that turns  *)
(* the per-process trace files written by libear into a compilation        *)
(* database.  Strings are sequences of one-character strings, so that the  *)
(* string manipulations of the code (split, join, reversal, regular        *)
(* expressions, shlex) are computed as the code computes them.             *)
(***************************************************************************)
EXTENDS Integers, Sequences, FiniteSets, TLC

VARIABLES
    \* the environment
    fs,         \* the paths for which os.path.exists is true
    cwd,        \* os.getcwd() of the collecting process
    \* merge driver
    mpc,        \* position of the merge driver: "idle", "init", "merged", "again"
    old,        \* merge's first argument (list of cdb entries)
    new,        \* merge's second argument (list of cdb entries)
    merged,     \* merge(old, new): Return(list) or RAISE
    again,      \* merge(merge(old, new), new): Return(list) or RAISE
    \* general_filter driver
    fpc,        \* "idle", "init", "done"
    frecord,    \* the record offered to general_filter
    passed,     \* whether general_filter yielded it: Return(BOOLEAN) or RAISE
    \* format_record driver
    xpc,        \* "idle", "init", "done"
    xrecord,    \* the record offered to format_record
    xentries,   \* the entries format_record yielded
    \* main
    pc,         \* position of main
    args,       \* the parsed command line: append, filtering (--disable-filter)
    scratch,    \* the scratch directory: "absent", "present", "removed"
    traces,     \* the trace files of the scratch directory: suffix -> content
    cdb,        \* the file args.cdb
    exit_code,  \* main's local exit_code
    currents,   \* main's local currents
    collected,  \* the value of collect(not filtering, tmpdir)
    commands,   \* main's local commands
    error,      \* the exception in flight, "" when there is none
    result      \* what main gave its caller: Return(code), RAISE while none

envVars == <<fs, cwd>>
mergeVars == <<mpc, old, new, merged, again>>
filterVars == <<fpc, frecord, passed>>
expandVars == <<xpc, xrecord, xentries>>
mainVars == <<pc, args, scratch, traces, cdb, exit_code, currents, collected,
              commands, error, result>>
vars == <<envVars, mergeVars, filterVars, expandVars, mainVars>>

(***************************************************************************)
(* Values                                                                  *)
(***************************************************************************)
\* the outcome of a call: a returned value, or a raised exception
Return(v) == [ok |-> TRUE, val |-> v]
RAISE == [ok |-> FALSE, val |-> <<>>]

\* sequences over S of length at most n
RECURSIVE SeqUpTo(_, _)
SeqUpTo(S, n) ==
    IF n = 0 THEN {<<>>}
    ELSE LET shorter == SeqUpTo(S, n - 1)
         IN  shorter \cup {Append(s, x) : s \in {t \in shorter : Len(t) = n - 1}, x \in S}

Range(s) == {s[i] : i \in 1..Len(s)}

(***************************************************************************)
(* Python string primitives                                                *)
(***************************************************************************)
\* s[::-1]
Reverse(s) == [i \in 1..Len(s) |-> s[Len(s) + 1 - i]]

\* sep.join(parts)
RECURSIVE Join(_, _)
Join(sep, parts) ==
    IF Len(parts) = 0 THEN <<>>
    ELSE IF Len(parts) = 1 THEN parts[1]
    ELSE parts[1] \o sep \o Join(sep, Tail(parts))

\* s.split(c) for a one-character separator c
RECURSIVE SplitFrom(_, _, _, _)
SplitFrom(s, c, i, cur) ==
    IF i > Len(s) THEN <<cur>>
    ELSE IF s[i] = c THEN <<cur>> \o SplitFrom(s, c, i + 1, <<>>)
    ELSE SplitFrom(s, c, i + 1, Append(cur, s[i]))

Split(s, c) == SplitFrom(s, c, 1, <<>>)

\* seq[1:]
Rest(seq) == IF Len(seq) = 0 THEN <<>> ELSE Tail(seq)

(***************************************************************************)
(* shlex.split(s): POSIX mode, whitespace_split, no comment characters     *)
(***************************************************************************)
Whitespace == {" ", "\t", "\r", "\n"}
Quotes == {"'", "\""}
Escape == {"\\"}
EscapedQuotes == {"\""}

\* st: lexer state (" " between tokens, "a" in a word, a quote, an escape);
\* esc: the state an escape returns to; tok: the token being built;
\* quoted: the token has seen a quote; toks: the tokens produced so far
RECURSIVE ShlexScan(_, _, _, _, _, _, _)
ShlexScan(s, i, st, esc, tok, quoted, toks) ==
    IF i > Len(s) THEN
        IF st \in Quotes \/ st \in Escape THEN RAISE
        ELSE IF st = "a" /\ (tok # <<>> \/ quoted) THEN Return(Append(toks, tok))
        ELSE Return(toks)
    ELSE LET c == s[i] IN
        IF st = " " THEN
            IF c \in Whitespace THEN ShlexScan(s, i + 1, st, esc, tok, quoted, toks)
            ELSE IF c \in Escape THEN ShlexScan(s, i + 1, c, "a", tok, quoted, toks)
            ELSE IF c \in Quotes THEN ShlexScan(s, i + 1, c, esc, tok, quoted, toks)
            ELSE ShlexScan(s, i + 1, "a", esc, <<c>>, quoted, toks)
        ELSE IF st \in Quotes THEN
            IF c = st THEN ShlexScan(s, i + 1, "a", esc, tok, TRUE, toks)
            ELSE IF c \in Escape /\ st \in EscapedQuotes
                THEN ShlexScan(s, i + 1, c, st, tok, TRUE, toks)
            ELSE ShlexScan(s, i + 1, st, esc, Append(tok, c), TRUE, toks)
        ELSE IF st \in Escape THEN
            LET kept == IF esc \in Quotes /\ c # st /\ c # esc
                        THEN Append(tok, st) ELSE tok
            IN  ShlexScan(s, i + 1, esc, esc, Append(kept, c), quoted, toks)
        ELSE \* st = "a"
            IF c \in Whitespace THEN
                IF tok # <<>> \/ quoted
                THEN ShlexScan(s, i + 1, " ", esc, <<>>, FALSE, Append(toks, tok))
                ELSE ShlexScan(s, i + 1, " ", esc, tok, quoted, toks)
            ELSE IF c \in Quotes THEN ShlexScan(s, i + 1, c, esc, tok, quoted, toks)
            ELSE IF c \in Escape THEN ShlexScan(s, i + 1, c, "a", tok, quoted, toks)
            ELSE ShlexScan(s, i + 1, st, esc, Append(tok, c), quoted, toks)

shlex_split(s) == ShlexScan(s, 1, " ", "a", <<>>, FALSE, <<>>)

(***************************************************************************)
(* merge                                                                   *)
(***************************************************************************)
\* os.path.exists(path)
path_exists(path) == path \in fs

KeySep == <<"<", ">">>

\* merge.duplicate.hash_cdb: RAISE when shlex.split raises ValueError
hash_cdb(entry) ==
    LET words == shlex_split(entry.command)
    IN  IF ~words.ok THEN RAISE
        ELSE Return(Join(KeySep, <<Reverse(entry.file), Reverse(entry.directory),
                                   Join(<<" ">>, Rest(words.val))>>))

\* duplicate raised: the exception of shlex.split leaves the comprehension
Raised(state) == [ok |-> FALSE, dup |-> TRUE, state |-> state]

\* duplicate without the os.path.exists test
duplicate_unchecked(state, entry) ==
    LET entry_hash == hash_cdb(entry)
    IN  IF "file" \notin DOMAIN entry \/ ~entry_hash.ok THEN Raised(state)
        ELSE IF entry_hash.val \notin state
             THEN [ok |-> TRUE, dup |-> FALSE, state |-> state \cup {entry_hash.val}]
             ELSE [ok |-> TRUE, dup |-> TRUE, state |-> state]

\* duplicate that forgets state.add(entry_hash)
duplicate_forgetful(state, entry) ==
    IF "file" \notin DOMAIN entry THEN Raised(state)
    ELSE IF path_exists(entry.file) THEN
        LET entry_hash == hash_cdb(entry)
        IN  IF ~entry_hash.ok THEN Raised(state)
            ELSE IF entry_hash.val \notin state
                 THEN [ok |-> TRUE, dup |-> FALSE, state |-> state]
                 ELSE [ok |-> TRUE, dup |-> TRUE, state |-> state]
    ELSE [ok |-> TRUE, dup |-> TRUE, state |-> state]

\* merge.duplicate: the verdict and the set of hashes afterwards, or RAISE
\* (KeyError for a raw record, which has no 'file'; ValueError of shlex)
duplicate(state, entry) ==
    IF "file" \notin DOMAIN entry THEN Raised(state)
    ELSE IF path_exists(entry.file) THEN
        LET entry_hash == hash_cdb(entry)
        IN  IF ~entry_hash.ok THEN Raised(state)
            ELSE IF entry_hash.val \notin state
                 THEN [ok |-> TRUE, dup |-> FALSE, state |-> state \cup {entry_hash.val}]
                 ELSE [ok |-> TRUE, dup |-> TRUE, state |-> state]
    ELSE [ok |-> TRUE, dup |-> TRUE, state |-> state]

\* [entry for entry in stream if not duplicate(state, entry)]
RECURSIVE Comprehension(_, _, _, _)
Comprehension(stream, i, state, kept) ==
    IF i > Len(stream) THEN Return(kept)
    ELSE LET d == duplicate(state, stream[i]) IN
        IF ~d.ok THEN RAISE
        ELSE Comprehension(stream, i + 1, d.state,
                           IF d.dup THEN kept ELSE Append(kept, stream[i]))

\* merge that walks new before old
merge_new_first(o, n) == Comprehension(n \o o, 1, {}, <<>>)

\* merge(old, new)
merge(o, n) == Comprehension(o \o n, 1, {}, <<>>)

(***************************************************************************)
(* The merge driver: merge over bounded inputs, then once more over its    *)
(* own result and the same incoming entries                                *)
(***************************************************************************)
MaxEntries == 3

Entry(f, d, c) == [file |-> f, directory |-> d, command |-> c]

FileA == <<"/", "a">>
FileInB == <<"/", "b", ">", "<", "/", "a">>
DirB == <<"/", "b">>
DirD == <<"/", "d">>
CmdCc == <<"c", "c", " ", "-", "c">>
CmdClang == <<"c", "l", "a", "n", "g", " ", "-", "c">>
CmdQuoted == <<"c", "c", " ", "'", "-", "c", "'">>
CmdSep == <<"c", "c", " ", "d", "/", "<", ">", "-", "c">>
CmdOpenQuote == <<"c", "c", " ", "'", "x">>

MergeEntries ==
    { Entry(FileA, DirB, CmdCc),
      Entry(FileA, DirB, CmdClang),
      Entry(FileA, DirB, CmdQuoted),
      Entry(FileA, DirB, CmdSep),
      Entry(FileInB, DirD, CmdCc),
      Entry(FileA, DirD, CmdCc),
      Entry(FileA, DirD, CmdOpenQuote) }

MergeFiles == {e.file : e \in MergeEntries}

MergeIdle ==
    /\ mpc = "idle"
    /\ old = <<>>
    /\ new = <<>>
    /\ merged = Return(<<>>)
    /\ again = Return(<<>>)

MergeInit ==
    /\ mpc = "init"
    /\ old \in SeqUpTo(MergeEntries, MaxEntries)
    /\ new \in SeqUpTo(MergeEntries, MaxEntries - Len(old))
    /\ fs \in SUBSET MergeFiles
    /\ cwd = <<"/">>
    /\ merged = Return(<<>>)
    /\ again = Return(<<>>)

MergeOnce ==
    /\ mpc = "init"
    /\ merged' = merge(old, new)
    /\ mpc' = "merged"
    /\ UNCHANGED <<old, new, again>>
    /\ UNCHANGED <<envVars, filterVars, expandVars, mainVars>>

MergeAgain ==
    /\ mpc = "merged"
    /\ merged.ok
    /\ again' = merge(merged.val, new)
    /\ mpc' = "again"
    /\ UNCHANGED <<old, new, merged>>
    /\ UNCHANGED <<envVars, filterVars, expandVars, mainVars>>

MergeNext == MergeOnce \/ MergeAgain



(***************************************************************************)
(* re.match: regular expressions as trees, matched by the set of           *)
(* positions a match can end at                                            *)
(***************************************************************************)
Chr(c) == [t |-> "chr", c |-> c]
AnyChar == [t |-> "any"]
In(S) == [t |-> "in", s |-> S]
NotIn(S) == [t |-> "notin", s |-> S]
Cat(xs) == [t |-> "cat", xs |-> xs]
Alt(xs) == [t |-> "alt", xs |-> xs]
Star(x) == [t |-> "star", x |-> x]
Opt(x) == [t |-> "opt", x |-> x]
Bol == [t |-> "bol"]
Eol == [t |-> "eol"]

\* the literal text w
Lit(w) == Cat([i \in 1..Len(w) |-> Chr(w[i])])

Digits == {"0", "1", "2", "3", "4", "5", "6", "7", "8", "9"}

\* the positions where a match of re that starts at p can end
RECURSIVE Ends(_, _, _)
RECURSIVE EndsCat(_, _, _, _)
RECURSIVE EndsStar(_, _, _, _)
Ends(re, s, p) ==
    CASE re.t = "chr" -> IF p <= Len(s) /\ s[p] = re.c THEN {p + 1} ELSE {}
      [] re.t = "any" -> IF p <= Len(s) /\ s[p] # "\n" THEN {p + 1} ELSE {}
      [] re.t = "in" -> IF p <= Len(s) /\ s[p] \in re.s THEN {p + 1} ELSE {}
      [] re.t = "notin" -> IF p <= Len(s) /\ s[p] \notin re.s THEN {p + 1} ELSE {}
      [] re.t = "cat" -> EndsCat(re.xs, 1, s, {p})
      [] re.t = "alt" -> UNION {Ends(re.xs[k], s, p) : k \in 1..Len(re.xs)}
      [] re.t = "star" -> EndsStar(re.x, s, {p}, {p})
      [] re.t = "opt" -> {p} \cup Ends(re.x, s, p)
      [] re.t = "bol" -> IF p = 1 THEN {p} ELSE {}
      [] re.t = "eol" -> IF p = Len(s) + 1 \/ (p = Len(s) /\ s[p] = "\n")
                         THEN {p} ELSE {}

EndsCat(xs, k, s, P) ==
    IF k > Len(xs) \/ P = {} THEN P
    ELSE EndsCat(xs, k + 1, s, UNION {Ends(xs[k], s, p) : p \in P})

EndsStar(x, s, seen, frontier) ==
    LET next == UNION {Ends(x, s, p) : p \in frontier} \ seen
    IN  IF next = {} THEN seen ELSE EndsStar(x, s, seen \cup next, next)

\* pattern.match(s) is not None
re_match(pattern, s) == Ends(pattern, s, 1) # {}

(***************************************************************************)
(* collect.general_filter                                                  *)
(***************************************************************************)
\* ([^/]*/)*
DirPrefix == Star(Cat(<<Star(NotIn({"/"})), Chr("/")>>))
\* ([^-]*-)*
DashPrefix == Star(Cat(<<Star(NotIn({"-"})), Chr("-")>>))
\* (c|\+\+)
COrPlusPlus == Alt(<<Chr("c"), Lit(<<"+", "+">>)>>)
\* (cc|\+\+)
CcOrPlusPlus == Alt(<<Lit(<<"c", "c">>), Lit(<<"+", "+">>)>>)

\* -[2345].[0-9]
GccVersion == Cat(<<Chr("-"), In({"2", "3", "4", "5"}), AnyChar, In(Digits)>>)
\* -[23].[0-9]
ClangVersion == Cat(<<Chr("-"), In({"2", "3"}), AnyChar, In(Digits)>>)

\* known_compiler.patterns
CompilerPatterns ==
    << Cat(<<Bol, DirPrefix, Chr("c"), COrPlusPlus, Eol>>),
       Cat(<<Bol, DirPrefix, DashPrefix, Chr("g"), CcOrPlusPlus,
             Opt(GccVersion), Eol>>),
       Cat(<<Bol, DirPrefix, DashPrefix, Lit(<<"c", "l", "a", "n", "g">>),
             Opt(Lit(<<"+", "+">>)), Opt(ClangVersion), Eol>>),
       Cat(<<Bol, DirPrefix, Lit(<<"l", "l", "v", "m", "-", "g">>),
             CcOrPlusPlus, Eol>>) >>

\* cancel_parameter.patterns
CancelPatterns == << Cat(<<Bol, Lit(<<"-", "c", "c", "1">>), Eol>>) >>

\* general_filter.known_compiler: command[0] raises IndexError when the
\* command is empty
known_compiler(command) ==
    IF Len(command) = 0 THEN RAISE
    ELSE Return(\E k \in 1..Len(CompilerPatterns) :
                    re_match(CompilerPatterns[k], command[1]))

\* general_filter.cancel_parameter
cancel_parameter(command) ==
    \E k \in 1..Len(CancelPatterns) :
        \E i \in 2..Len(command) : re_match(CancelPatterns[k], command[i])

\* whether general_filter yields the record
filter_passes(record) ==
    LET known == known_compiler(record.command)
    IN  IF ~known.ok THEN RAISE
        ELSE Return(known.val /\ ~cancel_parameter(record.command))

\* general_filter over a list of records: the records yielded, or RAISE
RECURSIVE general_filter(_)
general_filter(records) ==
    IF Len(records) = 0 THEN Return(<<>>)
    ELSE LET head == filter_passes(records[1])
             tail == general_filter(Tail(records))
         IN  IF ~head.ok \/ ~tail.ok THEN RAISE
             ELSE Return((IF head.val THEN <<records[1]>> ELSE <<>>) \o tail.val)

(***************************************************************************)
(* The filter driver: general_filter over one record of bounded shape      *)
(***************************************************************************)
MaxArgs == 2

Record(d, c) == [pid |-> <<"1">>, ppid |-> <<"0">>, function |-> <<"e">>,
                 directory |-> d, command |-> c]

FilterExecutables ==
    { <<"c", "c">>,
      <<"c", "+", "+">>,
      <<"g", "c", "c">>,
      <<"g", "+", "+", "-", "4", ".", "9">>,
      <<"c", "l", "a", "n", "g", "-", "3", ".", "8">>,
      <<"c", "l", "a", "n", "g", "+", "+">>,
      <<"a", "r", "m", "-", "n", "o", "n", "e", "-", "e", "a", "b", "i", "-", "g", "c", "c">>,
      <<"l", "l", "v", "m", "-", "g", "+", "+">>,
      <<"g", "c", "c", "f", "o", "o">>,
      <<"/", "u", "s", "r", "/", "b", "i", "n", "/", "p", "y", "t", "h", "o", "n">>,
      <<"m", "y", "-", "c", "l", "a", "n", "g", "-", "w", "r", "a", "p", "p", "e", "r">>,
      <<"/", "u", "s", "r", "/", "b", "i", "n", "/", "c", "c">>,
      <<"/", "o", "p", "t", "/", "x", "-", "y", "/", "g", "c", "c">>,
      <<"/", "b", "i", "n", "/", "c", "l", "a", "n", "g", "-", "3", ".", "8">>,
      <<"x", "c", "c">>,
      <<"c", "c", "/">>,
      <<"g", "c", "c", "-", "4", "x", "9">>,
      <<"g", "c", "c", "-", "4", ".", "9", ".", "1">>,
      <<"C", "C">> }

FilterArgs ==
    { <<"-", "c">>,
      <<"-", "c", "c", "1">>,
      <<"-", "c", "c", "1", "x">>,
      <<"a", ".", "c">> }

FilterIdle ==
    /\ fpc = "idle"
    /\ frecord = Record(<<>>, <<>>)
    /\ passed = Return(FALSE)

FilterInit ==
    /\ fpc = "init"
    /\ \E exe \in FilterExecutables \cup {<<>>}, argv \in SeqUpTo(FilterArgs, MaxArgs) :
           frecord = Record(<<"/", "s", "r", "c">>,
                            IF exe = <<>> THEN <<>> ELSE <<exe>> \o argv)
    /\ passed = Return(FALSE)

Filter ==
    /\ fpc = "init"
    /\ passed' = filter_passes(frecord)
    /\ fpc' = "done"
    /\ UNCHANGED frecord
    /\ UNCHANGED <<envVars, mergeVars, expandVars, mainVars>>

FilterNext == Filter


(***************************************************************************)
(* os.path (posixpath)                                                     *)
(***************************************************************************)
isabs(path) == Len(path) > 0 /\ path[1] = "/"

\* os.path.join(a, b)
os_path_join(a, b) ==
    IF isabs(b) THEN b
    ELSE IF a = <<>> \/ a[Len(a)] = "/" THEN a \o b
    ELSE a \o <<"/">> \o b

\* the loop of normpath over the components
RECURSIVE NormComps(_, _, _, _)
NormComps(comps, k, initial_slashes, new_comps) ==
    IF k > Len(comps) THEN new_comps
    ELSE LET comp == comps[k] IN
        IF comp = <<>> \/ comp = <<".">>
        THEN NormComps(comps, k + 1, initial_slashes, new_comps)
        ELSE IF \/ comp # <<".", ".">>
                \/ (initial_slashes = 0 /\ new_comps = <<>>)
                \/ (new_comps # <<>> /\ new_comps[Len(new_comps)] = <<".", ".">>)
        THEN NormComps(comps, k + 1, initial_slashes, Append(new_comps, comp))
        ELSE IF new_comps # <<>>
        THEN NormComps(comps, k + 1, initial_slashes,
                       SubSeq(new_comps, 1, Len(new_comps) - 1))
        ELSE NormComps(comps, k + 1, initial_slashes, new_comps)

\* os.path.normpath(path)
normpath(path) ==
    IF path = <<>> THEN <<".">>
    ELSE LET initial_slashes ==
                 IF path[1] # "/" THEN 0
                 ELSE IF Len(path) >= 2 /\ path[2] = "/"
                         /\ ~(Len(path) >= 3 /\ path[3] = "/") THEN 2
                 ELSE 1
             new_comps == NormComps(Split(path, "/"), 1, initial_slashes, <<>>)
             joined == [i \in 1..initial_slashes |-> "/"] \o Join(<<"/">>, new_comps)
         IN  IF joined = <<>> THEN <<".">> ELSE joined

\* os.path.abspath(path): relative paths are resolved against os.getcwd()
abspath(path) ==
    normpath(IF isabs(path) THEN path ELSE os_path_join(cwd, path))

(***************************************************************************)
(* collect.format_record                                                   *)
(***************************************************************************)
\* analyzer.command.parse, the external classifier: the action of a command
\* line and its source-file operands
EndsWithDotC(arg) ==
    Len(arg) > 2 /\ arg[Len(arg) - 1] = "." /\ arg[Len(arg)] = "c"

cmdparse(command) ==
    LET argv == Rest(command)
    IN  [action |-> IF <<"-", "E">> \in Range(argv) THEN "Preprocess"
                    ELSE IF <<"-", "c">> \in Range(argv) THEN "Compile"
                    ELSE "Link",
         files |-> SelectSeq(argv, LAMBDA a : a[1] # "-" /\ EndsWithDotC(a))]

\* format_record.join_command
join_command(argv) == Join(<<" ">>, argv)

\* the entries format_record yields for one record
format_one(record) ==
    LET atoms == cmdparse(record.command)
    IN  IF atoms.action = "Compile"
        THEN [k \in 1..Len(atoms.files) |->
                 [directory |-> record.directory,
                  command |-> join_command(record.command),
                  file |-> abspath(atoms.files[k])]]
        ELSE <<>>

\* format_record over a list of records
RECURSIVE format_record(_)
format_record(records) ==
    IF Len(records) = 0 THEN <<>>
    ELSE format_one(records[1]) \o format_record(Tail(records))

(***************************************************************************)
(* The format_record driver: one recognised record of bounded shape, and   *)
(* a working directory of the collecting process                           *)
(***************************************************************************)
MaxOperands == 3

DirSrc == <<"/", "s", "r", "c">>
DirObj == <<"/", "o", "b", "j">>
DirTmp == <<"/", "t", "m", "p">>

ExpandArgs ==
    { <<"-", "c">>,
      <<"-", "E">>,
      <<"a", ".", "c">>,
      <<".", ".", "/", "b", ".", "c">>,
      <<"/", "s", "r", "c", "/", "a", ".", "c">>,
      <<"a", ".", "o">> }

ExpandIdle ==
    /\ xpc = "idle"
    /\ xrecord = Record(<<>>, <<>>)
    /\ xentries = <<>>

ExpandInit ==
    /\ xpc = "init"
    /\ fs = {}
    /\ cwd \in {DirSrc, DirTmp, <<"/">>}
    /\ \E d \in {DirSrc, DirObj}, argv \in SeqUpTo(ExpandArgs, MaxOperands) :
           xrecord = Record(d, <<<<"c", "c">>>> \o argv)
    /\ xentries = <<>>

Expand ==
    /\ xpc = "init"
    /\ xentries' = format_record(<<xrecord>>)
    /\ xpc' = "done"
    /\ UNCHANGED xrecord
    /\ UNCHANGED <<envVars, mergeVars, filterVars, mainVars>>

ExpandNext == Expand


(***************************************************************************)
(* collect                                                                 *)
(***************************************************************************)
\* chr(0x1e) and chr(0x1f), each one character
RS == "RS"
US == "US"

\* collect.parse on the content of a trace file: IndexError when the
\* content has fewer than five RS-separated fields
parse(content) ==
    LET records == Split(content, RS)
    IN  IF Len(records) < 5 THEN RAISE
        ELSE LET tokens == Split(records[5], US)
             IN  Return([pid |-> records[1],
                         ppid |-> records[2],
                         function |-> records[3],
                         directory |-> records[4],
                         command |-> SubSeq(tokens, 1, Len(tokens) - 1)])

\* [parse(record) for record in glob.iglob(...)]
RECURSIVE parse_all(_)
parse_all(contents) ==
    IF Len(contents) = 0 THEN Return(<<>>)
    ELSE LET head == parse(contents[1])
             tail == parse_all(Tail(contents))
         IN  IF ~head.ok \/ ~tail.ok THEN RAISE
             ELSE Return(<<head.val>> \o tail.val)

\* collect(filtering, destination) when glob lists the files with the given
\* contents, in that order
collect(filtering, contents) ==
    LET generator == parse_all(contents)
    IN  IF ~generator.ok THEN RAISE
        ELSE IF filtering
        THEN LET kept == general_filter(generator.val)
             IN  IF ~kept.ok THEN RAISE ELSE Return(format_record(kept.val))
        ELSE generator

(***************************************************************************)
(* json.dump(..., sort_keys=True) and json.load                            *)
(***************************************************************************)
\* the keys of the program's dictionaries, in sorted order
KeyOrder == <<"command", "directory", "file", "function", "pid", "ppid">>

\* one object as written: its items, sorted by key
dump_object(d) ==
    LET keys == SelectSeq(KeyOrder, LAMBDA k : k \in DOMAIN d)
    IN  [i \in 1..Len(keys) |-> <<keys[i], d[keys[i]]>>]

\* the file json.dump writes: the list in its own order, each object with
\* sorted keys
json_dump(list) ==
    [kind |-> "json", val |-> [i \in 1..Len(list) |-> dump_object(list[i])]]

load_object(items) ==
    [k \in {items[i][1] : i \in 1..Len(items)} |->
        LET i == CHOOSE i \in 1..Len(items) : items[i][1] = k IN items[i][2]]

\* json.load: ValueError when the file is not JSON
json_load(file) ==
    IF file.kind = "json"
    THEN Return([i \in 1..Len(file.val) |-> load_object(file.val[i])])
    ELSE RAISE

AbsentFile == [kind |-> "absent", val |-> <<>>]
GarbageFile == [kind |-> "garbage", val |-> <<>>]

\* main.load_current_cdb
load_current_cdb(file) ==
    IF file.kind # "absent" THEN json_load(file) ELSE Return(<<>>)

(***************************************************************************)
(* main                                                                    *)
(***************************************************************************)
MaxTraces == 2

ExitCodes == {0, 1}

\* the text libear writes for a process
TraceText(directory, command) ==
    Join(<<RS>>, << <<"7">>, <<"1">>, <<"e", "x", "e", "c">>, directory,
                    Join(<<US>>, command) \o <<US>>, <<>> >>)

FileAC == DirSrc \o <<"/", "a", ".", "c">>
FileBC == DirSrc \o <<"/", "b", ".", "c">>
Cc == <<"c", "c">>
Clang == <<"c", "l", "a", "n", "g">>
DashC == <<"-", "c">>

TraceTexts ==
    { TraceText(DirSrc, <<Cc, DashC, <<"a", ".", "c">>>>),
      TraceText(DirSrc, <<Clang, DashC, <<"a", ".", "c">>>>),
      TraceText(DirSrc, <<Cc, DashC, <<"b", ".", "c">>>>),
      TraceText(DirSrc, <<DirSrc \o <<"/", "a", ".", "o", "u", "t">>>>),
      Join(<<RS>>, << <<"7">>, <<"1">>, <<"e", "x", "e", "c">> >>) }

PriorDatabases ==
    { AbsentFile,
      GarbageFile,
      json_dump(<<Entry(FileBC, DirSrc, join_command(<<Clang, DashC, <<"b", ".", "c">>>>))>>) }

\* the orders in which glob.iglob can list the files named in S
Orders(S) ==
    {o \in [1..Cardinality(S) -> S] : \A i, j \in 1..Cardinality(S) : i # j => o[i] # o[j]}

\* the contents of the files in the order glob lists them
Listed(order) == [i \in 1..Len(order) |-> traces[order[i]]]

\* the listing in ascending order of the file names
RECURSIVE Ascending(_)
Ascending(S) ==
    IF S = {} THEN <<>>
    ELSE LET least == CHOOSE x \in S : \A y \in S : x <= y
         IN  <<least>> \o Ascending(S \ {least})

MainIdle ==
    /\ pc = "idle"
    /\ args = [append |-> FALSE, filtering |-> FALSE]
    /\ scratch = "absent"
    /\ traces = <<>>
    /\ cdb = AbsentFile
    /\ exit_code = 0
    /\ currents = <<>>
    /\ collected = <<>>
    /\ commands = <<>>
    /\ error = ""
    /\ result = RAISE

MainInit ==
    /\ pc = "start"
    /\ args \in [append : BOOLEAN, filtering : BOOLEAN]
    /\ fs = {FileAC, FileBC}
    /\ cwd \in {DirSrc, DirTmp}
    /\ scratch = "absent"
    /\ traces = <<>>
    /\ cdb \in PriorDatabases
    /\ exit_code = 0
    /\ currents = <<>>
    /\ collected = <<>>
    /\ commands = <<>>
    /\ error = ""
    /\ result = RAISE

others == <<mergeVars, filterVars, expandVars>>

\* TemporaryDirectory.__init__ and __enter__: mkdtemp
EnterScratch ==
    /\ pc = "start"
    /\ scratch' = "present"
    /\ pc' = "build"
    /\ UNCHANGED <<args, traces, cdb, exit_code, currents, collected, commands,
                   error, result>>
    /\ UNCHANGED <<envVars, others>>

\* run_build: subprocess.call starts the build, or raises OSError
StartBuild ==
    /\ pc = "build"
    /\ \/ pc' = "building" /\ error' = error
       \/ pc' = "unwind" /\ error' = "OSError"
    /\ UNCHANGED <<args, scratch, traces, cdb, exit_code, currents, collected,
                   commands, result>>
    /\ UNCHANGED <<envVars, others>>

\* a process of the build writes its trace file cmd.<suffix>
ChildWritesTrace ==
    /\ pc = "building"
    /\ Len(traces) < MaxTraces
    /\ \E text \in TraceTexts : traces' = Append(traces, text)
    /\ UNCHANGED <<pc, args, scratch, cdb, exit_code, currents, collected,
                   commands, error, result>>
    /\ UNCHANGED <<envVars, others>>

\* run_build returns the exit code of the build command
BuildExits ==
    /\ pc = "building"
    /\ \E code \in ExitCodes : exit_code' = code
    /\ pc' = "load"
    /\ UNCHANGED <<args, scratch, traces, cdb, currents, collected, commands,
                   error, result>>
    /\ UNCHANGED <<envVars, others>>

\* currents = load_current_cdb(args.cdb) if append else []
LoadCurrents ==
    /\ pc = "load"
    /\ LET loaded == IF args.append THEN load_current_cdb(cdb) ELSE Return(<<>>)
       IN  IF loaded.ok
           THEN currents' = loaded.val /\ pc' = "collect" /\ error' = error
           ELSE currents' = currents /\ pc' = "unwind" /\ error' = "ValueError"
    /\ UNCHANGED <<args, scratch, traces, cdb, exit_code, collected, commands,
                   result>>
    /\ UNCHANGED <<envVars, others>>

\* collect(not filtering, tmpdir), glob listing the files in some order
Collect ==
    /\ pc = "collect"
    /\ \E order \in Orders(DOMAIN traces) :
           LET got == collect(~args.filtering, Listed(order))
           IN  IF got.ok
               THEN collected' = got.val /\ pc' = "merge" /\ error' = error
               ELSE collected' = collected /\ pc' = "unwind"
                        /\ error' = "IndexError"
    /\ UNCHANGED <<args, scratch, traces, cdb, exit_code, currents, commands,
                   result>>
    /\ UNCHANGED <<envVars, others>>

\* commands = merge(currents, ...)
Merge ==
    /\ pc = "merge"
    /\ LET got == merge(currents, collected)
       IN  IF got.ok
           THEN commands' = got.val /\ pc' = "write" /\ error' = error
           ELSE /\ commands' = commands
                /\ pc' = "unwind"
                /\ error' = IF \E e \in Range(currents \o collected) :
                                    "file" \notin DOMAIN e
                             THEN "KeyError" ELSE "ValueError"
    /\ UNCHANGED <<args, scratch, traces, cdb, exit_code, currents, collected,
                   result>>
    /\ UNCHANGED <<envVars, others>>

\* open(args.cdb, 'w+') and json.dump, or IOError from open
WriteDatabase ==
    /\ pc = "write"
    /\ \/ cdb' = json_dump(commands) /\ pc' = "exit" /\ error' = error
       \/ cdb' = cdb /\ pc' = "unwind" /\ error' = "IOError"
    /\ UNCHANGED <<args, scratch, traces, exit_code, currents, collected,
                   commands, result>>
    /\ UNCHANGED <<envVars, others>>

\* leaving the with block without cleanup when an exception is in flight
UnwindKeepingScratch ==
    /\ pc = "unwind"
    /\ pc' = "raised"
    /\ UNCHANGED <<args, scratch, traces, cdb, exit_code, currents, collected,
                   commands, error, result>>
    /\ UNCHANGED <<envVars, others>>

\* return 0 in place of return exit_code
LeaveReturningZero ==
    /\ pc = "exit"
    /\ scratch' = "removed"
    /\ traces' = <<>>
    /\ result' = Return(0)
    /\ pc' = "returned"
    /\ UNCHANGED <<args, cdb, exit_code, currents, collected, commands, error>>
    /\ UNCHANGED <<envVars, others>>

\* the with block ends normally: __exit__ removes the scratch directory,
\* then return exit_code
Leave ==
    /\ pc = "exit"
    /\ scratch' = "removed"
    /\ traces' = <<>>
    /\ result' = Return(exit_code)
    /\ pc' = "returned"
    /\ UNCHANGED <<args, cdb, exit_code, currents, collected, commands, error>>
    /\ UNCHANGED <<envVars, others>>

\* an exception leaves the with block: __exit__ removes the scratch
\* directory, and the exception goes on to main's caller
Unwind ==
    /\ pc = "unwind"
    /\ scratch' = "removed"
    /\ traces' = <<>>
    /\ pc' = "raised"
    /\ UNCHANGED <<args, cdb, exit_code, currents, collected, commands, error,
                   result>>
    /\ UNCHANGED <<envVars, others>>

Next ==
    \/ EnterScratch
    \/ StartBuild
    \/ ChildWritesTrace
    \/ BuildExits
    \/ LoadCurrents
    \/ Collect
    \/ Merge
    \/ WriteDatabase
    \/ Leave
    \/ Unwind

(***************************************************************************)
(* Specifications                                                          *)
(***************************************************************************)
EnvIdle == fs = {} /\ cwd = <<"/">>

MergeStart == MergeInit /\ FilterIdle /\ ExpandIdle /\ MainIdle

MergeSpec == MergeStart /\ [][MergeNext]_vars

FilterStart == FilterInit /\ EnvIdle /\ MergeIdle /\ ExpandIdle /\ MainIdle

FilterSpec == FilterStart /\ [][FilterNext]_vars

ExpandStart == ExpandInit /\ MergeIdle /\ FilterIdle /\ MainIdle

ExpandSpec == ExpandStart /\ [][ExpandNext]_vars

Init == MainInit /\ MergeIdle /\ FilterIdle /\ ExpandIdle

Spec == Init /\ [][Next]_vars

(***************************************************************************)
(* Properties of general_filter                                            *)
(***************************************************************************)
\* the token after its directory prefix: what follows the last "/"
Basename(tok) == LET parts == Split(tok, "/") IN parts[Len(parts)]

HasSuffix(s, suf) ==
    Len(suf) <= Len(s) /\ SubSeq(s, Len(s) - Len(suf) + 1, Len(s)) = suf

\* s is an optional "-"-terminated prefix followed by tail
PrefixedBy(s, tail) ==
    /\ HasSuffix(s, tail)
    /\ LET front == SubSeq(s, 1, Len(s) - Len(tail))
       IN  front = <<>> \/ front[Len(front)] = "-"

\* "-<version>": a dash, a major digit, a dot and a minor digit
VersionSuffixes(majors) == {<<"-", a, ".", b>> : a \in majors, b \in Digits}

NamedCompiler(name) ==
    \/ name \in { <<"c", "c">>, <<"c", "+", "+">>,
                  <<"l", "l", "v", "m", "-", "g", "c", "c">>,
                  <<"l", "l", "v", "m", "-", "g", "+", "+">> }
    \/ \E core \in {<<"g", "c", "c">>, <<"g", "+", "+">>},
          ver \in {<<>>} \cup VersionSuffixes({"2", "3", "4", "5"}) :
           PrefixedBy(name, core \o ver)
    \/ \E core \in {<<"c", "l", "a", "n", "g">>, <<"c", "l", "a", "n", "g", "+", "+">>},
          ver \in {<<>>} \cup VersionSuffixes({"2", "3"}) :
           PrefixedBy(name, core \o ver)

\* C5: a record passes the filter if and only if the name of command[0]
\* behind its directory prefix is, in full, a recognised compiler name and
\* no later argument is exactly -cc1.
RecognizerIsExact ==
    (fpc = "done" /\ passed.ok) =>
        (passed.val <=>
            /\ NamedCompiler(Basename(frecord.command[1]))
            /\ \A i \in 2..Len(frecord.command) :
                   frecord.command[i] # <<"-", "c", "c", "1">>)


(***************************************************************************)
(* Properties of format_record                                             *)
(***************************************************************************)
\* the operand made absolute against the record's directory
ResolvedInRecordDir(record, operand) ==
    IF isabs(operand) THEN operand
    ELSE normpath(os_path_join(record.directory, operand))

\* C4: a record whose action is Compile yields exactly one entry per
\* source-file operand, with the record's directory, its argument vector
\* joined by single spaces, and the operand made absolute against the
\* record's directory, whatever the working directory of the collecting
\* process; a record with another action yields nothing.
EntryPerOperandInRecordDir ==
    (xpc = "done") =>
        LET atoms == cmdparse(xrecord.command)
        IN  IF atoms.action = "Compile"
            THEN /\ Len(xentries) = Len(atoms.files)
                 /\ \A k \in 1..Len(xentries) :
                        /\ xentries[k].directory = xrecord.directory
                        /\ xentries[k].command = Join(<<" ">>, xrecord.command)
                        /\ xentries[k].file =
                               ResolvedInRecordDir(xrecord, atoms.files[k])
            ELSE xentries = <<>>


(***************************************************************************)
(* Properties of main                                                      *)
(***************************************************************************)
KeySet(list) == {hash_cdb(e) : e \in Range(list)}

\* what collect gives when glob lists the trace files in ascending order
CollectedAscending ==
    collect(~args.filtering, Listed(Ascending(DOMAIN traces)))

RECURSIVE parse_well_formed(_)
parse_well_formed(contents) ==
    IF Len(contents) = 0 THEN <<>>
    ELSE LET head == parse(contents[1])
         IN  (IF head.ok THEN <<head.val>> ELSE <<>>)
                 \o parse_well_formed(Tail(contents))

MalformedAmongWellFormed ==
    /\ \E i \in DOMAIN traces : ~parse(traces[i]).ok
    /\ \E i \in DOMAIN traces : parse(traces[i]).ok

\* C7: a malformed trace file fails in isolation.  When the scratch
\* directory holds a malformed trace file next to well-formed ones and
\* nothing else fails, the run gets to write the database, and the keys
\* written are those of the prior entries and of the entries of the
\* well-formed files.
MalformedTraceIsolated ==
    (/\ pc \in {"exit", "unwind"}
     /\ error \in {"", "IndexError"}
     /\ args.filtering = FALSE
     /\ MalformedAmongWellFormed) =>
        /\ pc = "exit"
        /\ LET records == general_filter(parse_well_formed(
                              Listed(Ascending(DOMAIN traces))))
           IN  /\ records.ok
               /\ KeySet(commands) =
                      KeySet(merge(currents, format_record(records.val)).val)
               /\ cdb = json_dump(commands)

ScratchLifecycle ==
    /\ (pc \in {"build", "building", "load", "collect", "merge", "write",
                "exit", "unwind"}) => scratch = "present"
    /\ (Len(traces) > 0) => scratch = "present"
    /\ (pc \in {"returned", "raised"}) =>
           (scratch = "removed" /\ traces = <<>>)

\* a run that ended by the exception of a malformed trace file
ScratchLifecycleWitness ==
    /\ pc = "raised"
    /\ error = "IndexError"
    /\ scratch = "removed"

(***************************************************************************)
(* Properties of merge                                                     *)
(***************************************************************************)
Stream == old \o new

\* the entries of a list whose file exists
Existing(list) == SelectSeq(list, LAMBDA e : path_exists(e.file))

\* positions of a list whose entry has the deduplication key of e
WithKeyOf(list, e) == {k \in 1..Len(list) : hash_cdb(list[k]) = hash_cdb(e)}

Least(S) == CHOOSE x \in S : \A y \in S : x <= y

\* C1: first-seen wins.  When an entry of existing and an entry of incoming
\* have the same deduplication key and the file exists, the result of
\* merge(existing, incoming) holds exactly one entry with that key, and it is
\* the (first) entry of existing with that key and an existing file,
\* unchanged.
FirstSeenWins ==
    (mpc # "init" /\ merged.ok) =>
        \A i \in 1..Len(old), j \in 1..Len(new) :
            (path_exists(old[i].file) /\ hash_cdb(old[i]) = hash_cdb(new[j])) =>
                /\ Cardinality(WithKeyOf(merged.val, old[i])) = 1
                /\ \A k \in WithKeyOf(merged.val, old[i]) :
                       merged.val[k] = Existing(old)[Least(WithKeyOf(Existing(old), old[i]))]

\* an alias of an existing entry came in (same key, another first token) and
\* the merge returned
FirstSeenWinsWitness ==
    /\ mpc = "merged"
    /\ merged.ok
    /\ \E i \in 1..Len(old), j \in 1..Len(new) :
           /\ path_exists(old[i].file)
           /\ hash_cdb(old[i]) = hash_cdb(new[j])
           /\ old[i] # new[j]
           /\ old[i] \in Range(merged.val)

\* C2: merging is idempotent.  With the existing files unchanged,
\* merge(merge(D, N), N) is merge(D, N), entry for entry.
MergeIdempotent ==
    (mpc = "again") => (again = merged)

\* the second pass ran over a result that had taken a new entry in
MergeIdempotentWitness ==
    /\ mpc = "again"
    /\ Len(old) > 0
    /\ \E j \in 1..Len(new) :
           new[j] \in Range(merged.val) /\ new[j] \notin Range(old)

\* C3: existence filtering.  Every entry of the result names an existing
\* file; an entry whose file is missing is dropped from either list without
\* an error (merge raises only for an entry whose file exists) and without
\* costing an entry whose file exists its place: each of those keeps a
\* representative of its key in the result.
ExistenceFiltering ==
    (mpc # "init") =>
        /\ \A k \in 1..Len(merged.val) : path_exists(merged.val[k].file)
        /\ merged.ok =>
               \A i \in 1..Len(Stream) :
                   path_exists(Stream[i].file) =>
                       WithKeyOf(merged.val, Stream[i]) # {}
        /\ merged.ok => merged = merge(Existing(old), Existing(new))
        /\ ~merged.ok =>
               \E i \in 1..Len(Stream) :
                   path_exists(Stream[i].file) /\ ~hash_cdb(Stream[i]).ok

\* both lists held an entry whose file is missing next to one whose file
\* exists, and the merge returned the latter
ExistenceFilteringWitness ==
    /\ mpc = "merged"
    /\ merged.ok
    /\ Len(merged.val) > 0
    /\ \E i \in 1..Len(old) : ~path_exists(old[i].file)
    /\ \E j \in 1..Len(new) : ~path_exists(new[j].file)
    /\ \E j \in 1..Len(new) : new[j] \in Range(merged.val)

\* the arguments of an entry: the inverse of join_command
ArgsOf(entry) == Split(entry.command, " ")

\* (file, directory, argument vector without its first token)
Triple(entry) == <<entry.file, entry.directory, Rest(ArgsOf(entry))>>

\* C10: the deduplication key identifies exactly the triple (file,
\* directory, arguments after the first): entries whose files exist are
\* collapsed if and only if they agree on the triple, so the result holds
\* one entry per distinct triple.
KeyIdentifiesTriple ==
    (mpc = "merged" /\ merged.ok) =>
        Len(merged.val) = Cardinality({Triple(e) : e \in Range(Existing(Stream))})

====
